---- MODULE Spec2Model ----
(***************************************************************************)
(* Model of the Figma WebSocket connection manager                         *)
(* (src/src/talk_to_figma_mcp/core/logger.ts, lines 35-327): the socket,   *)
(* the map of pending requests with their timeouts, the current channel,   *)
(* and the handlers connectToFigma, ws.on('open'|'message'|'close'),       *)
(* joinChannel and sendCommandToFigma.                                     *)
(*                                                                         *)
(* Node runs every handler to completion, so each handler is one action.   *)
(* JavaScript values are modelled by tags ("undefined", "null", "0", ...)  *)
(* and truthiness by the operator Truthy.  Request timers carry the time   *)
(* that is left until they fire; Tick lets TickMs milliseconds pass.       *)
(***************************************************************************)
EXTENDS Integers, FiniteSets, Sequences, TLC

\* ---------------------------------------------------------------- bounds
\* how many commands are ever registered (identifiers 1..MaxIds)
MaxIds == 2
\* how many sockets are ever created (new WebSocket)
MaxSockets == 2
\* timer handles that can be armed or referenced at once: one per request,
\* and one to spare
MaxTimers == MaxIds + 1
\* reconnect timers the failing-constructor path may pile up
MaxReconnectTimers == MaxSockets
\* how far below zero and above the cap the configured reconnect interval
\* ranges, in steps of IntervalStepMs
MaxIntervalSteps == 3

\* ------------------------------------------------------ program constants
\* sendCommandToFigma: timeoutMs default
DefaultTimeoutMs == 30000
\* progress_update branch: the re-armed inactivity timeout
InactivityTimeoutMs == 60000
\* one step of the clock
TickMs == DefaultTimeoutMs
\* the timeoutMs values callers pass: the default, and a longer one
TimeoutChoices == {DefaultTimeoutMs, DefaultTimeoutMs + InactivityTimeoutMs}

\* let reconnectInterval = 2000
DefaultReconnectIntervalMs == 2000
\* Math.min(30000, ...): the cap of the reconnect delay
MaxBackoffMs == 30000
\* the reconnect intervals a run can be configured with (--reconnect-interval
\* is read with parseInt and not validated): multiples of IntervalStepMs from
\* MaxIntervalSteps steps below zero to MaxIntervalSteps steps above the cap
IntervalStepMs == DefaultReconnectIntervalMs \div 2
Intervals ==
    {i * IntervalStepMs :
        i \in -MaxIntervalSteps .. (MaxBackoffMs \div IntervalStepMs) + MaxIntervalSteps}
\* Math.random(), in tenths: 0 <= r < 1
RandomTenths == 0..9

Ids == 1..MaxIds
\* 0 stands for a frame without an id (json.id || '') or with a foreign one
FrameIds == 0..MaxIds
Handles == 1..MaxTimers
Channels == {"design-42"}
\* FigmaCommand: "join", which only joinChannel sends, and one representative
\* of the channel-scoped commands the tool handlers send
Commands == {"join", "get_document_info"}
ToolCommands == Commands \ {"join"}

\* JavaScript values of myResponse.result and myResponse.error, as tags
\* (false and the empty string are falsy like null and 0)
ResultValues == {"undefined", "null", "0", "{data}"}
ErrorValues == {"undefined", "Node not found"}
Truthy(v) == v \notin {"undefined", "null", "false", "0", "''"}

NotConnectedMsg == "Not connected to Figma. Attempting to connect..."
NotConnectedJoinMsg == "Not connected to Figma"
NoChannelMsg == "Must join a channel before sending commands"
TimedOutMsg == "Request to Figma timed out"
ClosedMsg == "Connection closed with code"

NoChannel == "null"
NullSocket == [sock |-> 0, readyState |-> "NONE"]

VARIABLES
    ws,               \* the module's socket: [sock, readyState], or NullSocket
    nextSock,         \* the next socket object new WebSocket creates
    connTimers,       \* the sockets' attempts whose connectionTimeout is armed
    reconnectTimers,  \* how many setTimeout(() => connectToFigma(port)) are armed
    env,              \* what the run is given: urlOk, whether the configured
                      \* wsConnUrl is a well-formed URL, channels, the
                      \* channel names the user asks to join, and
                      \* reconnectInterval, the configured base interval
    pendingRequests,  \* Map id -> [timeout]: the handle of the request's timer
                      \* (lastActivity is written and never read)
    timers,           \* the armed request timers: [h, id, remaining, timeoutMs]:
                      \* handle, the closure's request, the time left, and
                      \* the timeoutMs the request was sent with
    currentChannel,   \* the joined channel, or NoChannel
    nextId,           \* the next identifier uuidv4() returns
    callers,          \* per identifier, the caller's promise and what was invoked on it
    wire,             \* the envelopes written with ws.send
    lastEvent,        \* the handler that ran last and how it ended
    analysis          \* the call of the analyze_design_system tool, if any:
                      \* its arguments, where the handler stands, the
                      \* commands it issued, how they ended, what it returned

connVars == <<ws, nextSock, connTimers, reconnectTimers>>
vars == <<ws, nextSock, connTimers, reconnectTimers, env, analysis,
          pendingRequests,
          timers, currentChannel, nextId, callers, wire, lastEvent>>

\* id is the request the handler completed or re-armed, 0 if it touched none
Event(op, id, out) == [op |-> op, id |-> id, out |-> out]

\* the analyze_design_system tool is not called
NotCalled == [pc |-> "not called"]

Init ==
    /\ ws = NullSocket
    /\ nextSock = 1
    /\ connTimers = {}
    /\ reconnectTimers = 0
    /\ env \in [urlOk : BOOLEAN, channels : {Channels},
               reconnectInterval : {DefaultReconnectIntervalMs}]
    /\ pendingRequests = <<>>
    /\ timers = {}
    /\ currentChannel = NoChannel
    /\ nextId = 1
    /\ callers = <<>>
    /\ wire = {}
    /\ lastEvent = Event("init", 0, "")
    /\ analysis = NotCalled

\* ------------------------------------------------------------- helpers
Has(id) == id \in DOMAIN pendingRequests

\* (mutant) the entry is never deleted
MapDeleteForgotten(m, ids) == m

\* Map.delete
MapDelete(m, ids) == [i \in DOMAIN m \ ids |-> m[i]]

\* Map.set
MapSet(m, id, v) == [i \in DOMAIN m \cup {id} |-> IF i = id THEN v ELSE m[i]]

\* setTimeout returns a timer object no live reference points to
FreeHandles ==
    Handles \ ({t.h : t \in timers}
               \cup {pendingRequests[i].timeout : i \in DOMAIN pendingRequests})
NewHandle == CHOOSE h \in FreeHandles : \A g \in FreeHandles : h <= g

\* (mutant) clearTimeout leaves the timer armed
ClearTimeoutNoop(ts, hs) == ts

\* clearTimeout(handle)
ClearTimeout(ts, hs) == {t \in ts : t.h \notin hs}

\* The promise of sendCommandToFigma: the first resolve or reject settles it
Settle(c, state, value) ==
    [c EXCEPT !.outcome = IF @.state = "pending"
                          THEN [state |-> state, value |-> value] ELSE @,
              !.resolveCalls = IF state = "resolved" THEN @ + 1 ELSE @,
              !.rejectCalls = IF state = "rejected" THEN @ + 1 ELSE @]

\* request.resolve(value) / request.reject(new Error(value)) for the ids in S
Invoke(cs, S, state, value) ==
    [i \in DOMAIN cs |-> IF i \in S THEN Settle(cs[i], state, value) ELSE cs[i]]

Started == lastEvent.op # "init"

\* ------------------------------------------------------- connectToFigma
\* (mutant) no connect attempt is made
ConnectToFigmaNever(rt) ==
    /\ reconnectTimers' = rt
    /\ UNCHANGED <<ws, nextSock, connTimers>>

\* (mutant) every call opens a socket of its own
ConnectToFigmaAlways(rt) ==
    /\ nextSock <= MaxSockets
    /\ ws' = [sock |-> nextSock, readyState |-> "CONNECTING"]
    /\ nextSock' = nextSock + 1
    /\ connTimers' = connTimers \cup {nextSock}
    /\ reconnectTimers' = rt

\* connectToFigma(port); rt is the number of reconnect timers still armed
\* when it runs.
ConnectToFigma(rt) ==
    IF ws.readyState \in {"OPEN", "CONNECTING"}
    THEN \* already connected, or connection in progress
         /\ reconnectTimers' = rt
         /\ UNCHANGED <<ws, nextSock, connTimers>>
    ELSE \* ws is null, or CLOSING/CLOSED: removeAllListeners(), ws = null
         IF env.urlOk
         THEN \* ws = new WebSocket(wsConnUrl), with its connectionTimeout
              /\ nextSock <= MaxSockets
              /\ ws' = [sock |-> nextSock, readyState |-> "CONNECTING"]
              /\ nextSock' = nextSock + 1
              /\ connTimers' = connTimers \cup {nextSock}
              /\ reconnectTimers' = rt
         ELSE \* the constructor throws: catch, retry after reconnectInterval
              /\ rt < MaxReconnectTimers
              /\ ws' = NullSocket
              /\ reconnectTimers' = rt + 1
              /\ UNCHANGED <<nextSock, connTimers>>

\* main(): connectToFigma(config.defaultPort)
Main ==
    /\ ~Started
    /\ ConnectToFigma(reconnectTimers)
    /\ lastEvent' = Event("main", 0, "")
    /\ UNCHANGED <<env, analysis,
                   pendingRequests, timers, currentChannel, nextId,
                   callers, wire>>

\* setTimeout(() => connectToFigma(port), backoff) fires
ReconnectTimerFire ==
    /\ Started
    /\ reconnectTimers > 0
    /\ ConnectToFigma(reconnectTimers - 1)
    /\ lastEvent' = Event("reconnect", 0, "")
    /\ UNCHANGED <<env, analysis,
                   pendingRequests, timers, currentChannel, nextId,
                   callers, wire>>

\* the connectionTimeout of attempt a fires: it looks at the module's ws
ConnectionTimeoutFire(a) ==
    /\ a \in connTimers
    /\ connTimers' = connTimers \ {a}
    /\ ws' = IF ws.readyState = "CONNECTING"
             THEN [ws EXCEPT !.readyState = "CLOSING"]   \* ws.terminate()
             ELSE ws
    /\ lastEvent' = Event("connectionTimeout", 0, ws.readyState)
    /\ UNCHANGED <<nextSock, reconnectTimers, env, analysis,
                   pendingRequests, timers,
                   currentChannel, nextId, callers, wire>>

\* (mutant) the open handler does not cancel the connection timeout
OnOpenKeepsTimeout ==
    /\ ws.readyState = "CONNECTING"
    /\ ws' = [ws EXCEPT !.readyState = "OPEN"]
    /\ currentChannel' = NoChannel
    /\ lastEvent' = Event("open", 0, "")
    /\ UNCHANGED <<nextSock, connTimers, reconnectTimers, env, analysis,
                   pendingRequests, timers, nextId, callers, wire>>

\* (mutant) the open handler leaves the channel as it was
OnOpenKeepsChannel ==
    /\ ws.readyState = "CONNECTING"
    /\ ws' = [ws EXCEPT !.readyState = "OPEN"]
    /\ connTimers' = connTimers \ {ws.sock}
    /\ lastEvent' = Event("open", 0, "")
    /\ UNCHANGED <<nextSock, reconnectTimers, env, analysis,
                   pendingRequests, timers,
                   currentChannel, nextId, callers, wire>>

\* (mutant) the open handler sends again the commands that the closure of
\* an earlier connection failed
OnOpenReplays ==
    /\ ws.readyState = "CONNECTING"
    /\ ws' = [ws EXCEPT !.readyState = "OPEN"]
    /\ connTimers' = connTimers \ {ws.sock}
    /\ currentChannel' = NoChannel
    /\ wire' = wire \cup
           {[e EXCEPT !.sock = ws.sock] :
               e \in {x \in wire : callers[x.id].outcome =
                                       [state |-> "rejected",
                                        value |-> ClosedMsg]}}
    /\ lastEvent' = Event("open", 0, "")
    /\ UNCHANGED <<nextSock, reconnectTimers, env, analysis,
                   pendingRequests, timers,
                   nextId, callers>>

\* ws.on('open')
OnOpen ==
    /\ ws.readyState = "CONNECTING"
    /\ ws' = [ws EXCEPT !.readyState = "OPEN"]
    /\ connTimers' = connTimers \ {ws.sock}
    /\ currentChannel' = NoChannel
    /\ lastEvent' = Event("open", 0, "")
    /\ UNCHANGED <<nextSock, reconnectTimers, env, analysis,
                   pendingRequests, timers,
                   nextId, callers, wire>>

\* The peer's close frame arrives (or the socket is being torn down): the
\* socket is CLOSING until its 'close' event is emitted.
SocketClosing ==
    /\ ws.readyState = "OPEN"
    /\ ws' = [ws EXCEPT !.readyState = "CLOSING"]
    /\ lastEvent' = Event("closing", 0, "")
    /\ UNCHANGED <<nextSock, connTimers, reconnectTimers, env, analysis,
                   pendingRequests, timers, currentChannel, nextId, callers,
                   wire>>

\* (mutant) the error handler reconnects by itself
OnErrorReconnects ==
    /\ ws.readyState = "OPEN"
    /\ ws' = [ws EXCEPT !.readyState = "CLOSING"]
    /\ reconnectTimers' = reconnectTimers + 1
    /\ lastEvent' = Event("error", 0, "")
    /\ UNCHANGED <<nextSock, connTimers, env, analysis, pendingRequests, timers,
                   currentChannel, nextId, callers, wire>>

\* (mutant) the error handler resets the channel
OnErrorClearsChannel ==
    /\ ws.readyState = "OPEN"
    /\ ws' = [ws EXCEPT !.readyState = "CLOSING"]
    /\ currentChannel' = NoChannel
    /\ lastEvent' = Event("error", 0, "")
    /\ UNCHANGED <<nextSock, connTimers, reconnectTimers, env, analysis,
                   pendingRequests, timers, nextId, callers, wire>>

\* ws.on('error'): the socket of an open connection fails.  The library has
\* moved it to CLOSING when it emits 'error', and emits 'close' once the
\* socket is torn down; the handler only logs.  (A socket that fails while
\* it is connecting gets 'error' and 'close' in the same turn: OnClose.)
OnError ==
    /\ ws.readyState = "OPEN"
    /\ ws' = [ws EXCEPT !.readyState = "CLOSING"]
    /\ lastEvent' = Event("error", 0, "")
    /\ UNCHANGED <<nextSock, connTimers, reconnectTimers, env, analysis,
                   pendingRequests, timers, currentChannel, nextId, callers,
                   wire>>

\* (mutant) the close handler also clears the channel
OnCloseClearsChannel ==
    /\ ws.readyState \in {"CONNECTING", "OPEN", "CLOSING"}
    /\ connTimers' = connTimers \ {ws.sock}
    /\ ws' = NullSocket
    /\ timers' = ClearTimeout(timers, {pendingRequests[i].timeout :
                                          i \in DOMAIN pendingRequests})
    /\ callers' = Invoke(callers, DOMAIN pendingRequests, "rejected", ClosedMsg)
    /\ pendingRequests' = MapDelete(pendingRequests, DOMAIN pendingRequests)
    /\ reconnectTimers' = reconnectTimers + 1
    /\ currentChannel' = NoChannel
    /\ lastEvent' = Event("close", 0, "")
    /\ UNCHANGED <<nextSock, env, analysis, nextId, wire>>

\* ws.on('close'): the handler of the module's socket, whose listeners are
\* still installed
OnClose ==
    /\ ws.readyState \in {"CONNECTING", "OPEN", "CLOSING"}
    /\ connTimers' = connTimers \ {ws.sock}
    /\ ws' = NullSocket
    \* reject all pending requests
    /\ timers' = ClearTimeout(timers, {pendingRequests[i].timeout :
                                          i \in DOMAIN pendingRequests})
    /\ callers' = Invoke(callers, DOMAIN pendingRequests, "rejected", ClosedMsg)
    /\ pendingRequests' = MapDelete(pendingRequests, DOMAIN pendingRequests)
    \* setTimeout(() => connectToFigma(port), backoff)
    /\ reconnectTimers' = reconnectTimers + 1
    /\ lastEvent' = Event("close", 0, "")
    /\ UNCHANGED <<nextSock, env, analysis, currentChannel, nextId, wire>>

\* ------------------------------------------- sendCommandToFigma, joinChannel
NewCaller(command, joinName) ==
    [command |-> command, joinName |-> joinName,
     resolveCalls |-> 0, rejectCalls |-> 0,
     outcome |-> [state |-> "pending", value |-> ""]]

\* (mutant) every envelope carries the channel of its params
EnvelopeUntagged(id, command, chan) ==
    [id |-> id,
     type |-> IF command = "join" THEN "join" ELSE "message",
     channel |-> chan,
     command |-> command,
     messageId |-> id,
     commandId |-> id,
     sock |-> ws.sock]

\* the request object that is serialised onto the socket
Envelope(id, command, chan) ==
    [id |-> id,
     type |-> IF command = "join" THEN "join" ELSE "message",
     channel |-> IF command = "join" THEN chan ELSE currentChannel,
     command |-> command,
     messageId |-> id,
     commandId |-> id,
     sock |-> ws.sock]

\* (mutant) the generator returns the identifier it returned first
Uuidv4Repeats == IF nextId > 1 THEN 1 ELSE nextId

\* const id = uuidv4(): an identifier no earlier call returned
Uuidv4 == nextId

\* (mutant) no command is gated on the channel
RequiresChannelNever(command) == FALSE

\* const requiresChannel = command !== "join"
RequiresChannel(command) == command # "join"

\* (mutant) the request's timeout is armed before the channel is checked
SendCommandToFigmaArmsFirst(op, command, chan, timeoutMs, joinName) ==
    IF ws.readyState # "OPEN"
    THEN /\ ConnectToFigma(reconnectTimers)
         /\ lastEvent' = Event(op, 0, NotConnectedMsg)
         /\ UNCHANGED <<env, analysis, pendingRequests, timers, currentChannel,
                        nextId, callers, wire>>
    ELSE IF RequiresChannel(command) /\ currentChannel = NoChannel
    THEN /\ FreeHandles # {}
         /\ timers' = timers \cup
                {[h |-> NewHandle, id |-> Uuidv4, remaining |-> timeoutMs,
                  timeoutMs |-> timeoutMs]}
         /\ lastEvent' = Event(op, 0, NoChannelMsg)
         /\ UNCHANGED <<connVars, env, analysis,
                        pendingRequests, currentChannel,
                        nextId, callers, wire>>
    ELSE /\ nextId <= MaxIds
         /\ FreeHandles # {}
         /\ timers' = timers \cup
                {[h |-> NewHandle, id |-> Uuidv4, remaining |-> timeoutMs,
                  timeoutMs |-> timeoutMs]}
         /\ pendingRequests' =
                MapSet(pendingRequests, Uuidv4, [timeout |-> NewHandle])
         /\ callers' = MapSet(callers, Uuidv4,
                              NewCaller(command, joinName))
         /\ wire' = wire \cup {Envelope(Uuidv4, command, chan)}
         /\ nextId' = nextId + 1
         /\ lastEvent' = Event(op, 0, "sent")
         /\ UNCHANGED <<connVars, env, analysis, currentChannel>>

\* sendCommandToFigma(command, {channel: chan}, timeoutMs), called from op;
\* joinName is the channel joinChannel stores when the promise resolves
\* (NoChannel for every other caller).
SendCommandToFigma(op, command, chan, timeoutMs, joinName) ==
    IF ws.readyState # "OPEN"
    THEN \* connectToFigma(); reject(not connected)
         /\ ConnectToFigma(reconnectTimers)
         /\ lastEvent' = Event(op, 0, NotConnectedMsg)
         /\ UNCHANGED <<env, analysis, pendingRequests, timers, currentChannel,
                        nextId, callers, wire>>
    ELSE IF RequiresChannel(command) /\ currentChannel = NoChannel
    THEN \* reject(must join a channel)
         /\ lastEvent' = Event(op, 0, NoChannelMsg)
         /\ UNCHANGED <<connVars, env, analysis, pendingRequests, timers,
                        currentChannel, nextId, callers, wire>>
    ELSE /\ nextId <= MaxIds
         /\ FreeHandles # {}
         /\ timers' = timers \cup
                {[h |-> NewHandle, id |-> Uuidv4, remaining |-> timeoutMs,
                  timeoutMs |-> timeoutMs]}
         /\ pendingRequests' =
                MapSet(pendingRequests, Uuidv4, [timeout |-> NewHandle])
         /\ callers' = MapSet(callers, Uuidv4,
                              NewCaller(command, joinName))
         /\ wire' = wire \cup {Envelope(Uuidv4, command, chan)}
         /\ nextId' = nextId + 1
         /\ lastEvent' = Event(op, 0, "sent")
         /\ UNCHANGED <<connVars, env, analysis, currentChannel>>

\* a tool handler calls sendCommandToFigma(command, params, timeoutMs)
SendCommand(command, timeoutMs) ==
    /\ Started
    /\ SendCommandToFigma("sendCommandToFigma", command, NoChannel, timeoutMs,
                          NoChannel)

\* joinChannel(channelName)
JoinChannel(channelName) ==
    /\ Started
    /\ IF ws.readyState # "OPEN"
       THEN \* throw new Error("Not connected to Figma")
            /\ lastEvent' = Event("joinChannel", 0, NotConnectedJoinMsg)
            /\ UNCHANGED <<connVars, env, analysis, pendingRequests, timers,
                           currentChannel, nextId, callers, wire>>
       ELSE SendCommandToFigma("joinChannel", "join", channelName,
                               DefaultTimeoutMs, channelName)

\* (mutant) only the first join to succeed on a connection stores its channel
ChannelAfterResolveFirstWins(id) ==
    IF callers[id].outcome.state = "pending" /\ callers[id].joinName # NoChannel
       /\ currentChannel = NoChannel
    THEN callers[id].joinName
    ELSE currentChannel

\* (mutant) the continuation does not store the channel
ChannelAfterResolveKeeps(id) == currentChannel

\* the continuation of joinChannel after its await: it runs when the
\* promise of identifier id is fulfilled
ChannelAfterResolve(id) ==
    IF callers[id].outcome.state = "pending" /\ callers[id].joinName # NoChannel
    THEN callers[id].joinName
    ELSE currentChannel

\* getCurrentChannel()
GetCurrentChannel == currentChannel

\* ---------------------------------------------------------- tool handlers
\* the text each handler's catch puts before the error message
ErrorPrefix(command) ==
    IF command = "join" THEN "Error joining channel"
    ELSE "Error getting document info"

\* (mutant) a handler without try/catch: the rejection reaches the protocol
\* layer
ToolHandlerNoCatch(command, outcome) ==
    IF outcome.state = "rejected"
    THEN [raised |-> TRUE, content |-> <<>>]
    ELSE [raised |-> FALSE,
          content |-> <<[type |-> "text", text |-> <<outcome.value>>]>>]

\* async () => { try { const result = await <the call>; return {content:
\* [{type: "text", text: <result>}]} } catch (error) { return {content:
\* [{type: "text", text: `<prefix>: ${error.message}`}]} } }, applied to the
\* way the awaited call ended; a text is the sequence of its parts
ToolHandler(command, outcome) ==
    IF outcome.state = "rejected"
    THEN [raised |-> FALSE,
          content |-> <<[type |-> "text",
                         text |-> <<ErrorPrefix(command), ": ",
                                    outcome.value>>]>>]
    ELSE [raised |-> FALSE,
          content |-> <<[type |-> "text", text |-> <<outcome.value>>]>>]

\* ------------------------------------------------------- ws.on('message')
\* the inbound frames: json.type, json.id / json.message.id, the progress
\* data, and json.message.result / json.message.error
\* decoded tells how far the handler gets in reading the frame: "ok" for a
\* frame of a known shape
ProgressFrames ==
    {[type |-> "progress_update", id |-> i, status |-> p[1], progress |-> p[2],
      result |-> "undefined", error |-> "undefined", decoded |-> "ok"] :
        i \in FrameIds, p \in {<<"in_progress", 50>>, <<"completed", 100>>}}
ResponseFrames ==
    [type : {"undefined"}, id : FrameIds, status : {""}, progress : {0},
     result : ResultValues, error : ErrorValues, decoded : {"ok"}]
\* frames the handler cannot read:
\*   "not JSON"    JSON.parse(data) throws
\*   "no message"  json.message is undefined: json.message.data (progress) and
\*                 myResponse.id (response) throw a TypeError
\*   "no data"     a progress_update whose message has no data: progressData
\*                 is undefined, and progressData.commandType throws once
\*                 the request was found and its timeout re-armed
MalformedFrames ==
    {[type |-> "undefined", id |-> 0, status |-> "", progress |-> 0,
      result |-> "undefined", error |-> "undefined", decoded |-> d] :
        d \in {"not JSON", "no message"}}
    \cup {[type |-> "progress_update", id |-> 0, status |-> "", progress |-> 0,
           result |-> "undefined", error |-> "undefined",
           decoded |-> "no message"]}
    \cup {[type |-> "progress_update", id |-> i, status |-> "", progress |-> 0,
           result |-> "undefined", error |-> "undefined",
           decoded |-> "no data"] : i \in FrameIds}
Frames == ProgressFrames \cup ResponseFrames \cup MalformedFrames

\* the timer object setTimeout creates once the request's old one is cleared
RearmHandle(ts, id) ==
    LET free == Handles \ ({t.h : t \in ts}
                   \cup {pendingRequests[i].timeout :
                            i \in DOMAIN pendingRequests \ {id}})
    IN  CHOOSE h \in free : \A g \in free : h <= g

\* the armed timer of a pending request
TimerOf(id) == CHOOSE t \in timers : t.h = pendingRequests[id].timeout

\* (mutant) re-armed at the duration the request was sent with
RearmSameDurationMs(id) == TimerOf(id).timeoutMs

\* what the request's timeout is re-armed to when progress arrives
RearmMs(id) == InactivityTimeoutMs

\* (mutant) the early resolution the source leaves commented out:
\* request.resolve(progressData.payload); pendingRequests.delete(requestId)
CompletedProgressResolves(f, pr, cs) ==
    IF f.status = "completed" /\ f.progress = 100
    THEN <<MapDelete(pr, {f.id}), Invoke(cs, {f.id}, "resolved", "{data}")>>
    ELSE <<pr, cs>>

\* if (progressData.status === 'completed' && progressData.progress === 100):
\* only logged; the pending map pr and the callers cs stay as they are
CompletedProgress(f, pr, cs) == <<pr, cs>>

\* if (json.type === 'progress_update') { ... return; }
OnProgress(f) ==
    IF f.id # 0 /\ Has(f.id)
    THEN LET cleared == ClearTimeout(timers, {pendingRequests[f.id].timeout})
             h == RearmHandle(cleared, f.id)
             after == CompletedProgress(f,
                          [pendingRequests EXCEPT ![f.id].timeout = h], callers)
         IN  /\ timers' = cleared \cup
                    {[h |-> h, id |-> f.id, remaining |-> RearmMs(f.id),
                      timeoutMs |-> TimerOf(f.id).timeoutMs]}
             /\ pendingRequests' = after[1]
             /\ callers' = after[2]
             /\ lastEvent' = Event("message", f.id,
                    IF f.decoded = "no data"
                    THEN "decode error"     \* progressData.commandType throws
                    ELSE IF f.status = "completed" /\ f.progress = 100
                    THEN "progress completed" ELSE "progress")
             /\ UNCHANGED currentChannel
    ELSE /\ lastEvent' = Event("message", 0, "progress ignored")
         /\ UNCHANGED <<pendingRequests, timers, callers, currentChannel>>

\* if (myResponse.id && pendingRequests.has(myResponse.id) && myResponse.result)
IsResponseToRequest(f) == f.id # 0 /\ Has(f.id) /\ Truthy(f.result)

\* (mutant) a response completes the request that was sent first
MatchedOldest(f) ==
    CHOOSE i \in DOMAIN pendingRequests :
        \A j \in DOMAIN pendingRequests : i <= j

\* const request = pendingRequests.get(myResponse.id)
MatchedRequest(f) == f.id

\* (mutant) a frame that matches no pending request still completes the
\* caller its identifier once belonged to
BroadcastSettles(f) ==
    /\ callers' = Invoke(callers, {f.id} \cap DOMAIN callers, "resolved",
                         f.result)
    /\ lastEvent' = Event("message", 0, "broadcast")
    /\ UNCHANGED <<pendingRequests, timers, currentChannel>>

\* else { logger.info(`Received broadcast message: ...`) }
Broadcast(f) ==
    /\ lastEvent' = Event("message", 0, "broadcast")
    /\ UNCHANGED <<pendingRequests, timers, callers, currentChannel>>

\* the regular-response branch, and the broadcast branch after it
OnResponse(f) ==
    IF IsResponseToRequest(f)
    THEN LET id == MatchedRequest(f)
         IN  /\ timers' = ClearTimeout(timers, {pendingRequests[id].timeout})
             /\ IF Truthy(f.error)
                THEN /\ callers' = Invoke(callers, {id}, "rejected", f.error)
                     /\ UNCHANGED currentChannel
                     /\ lastEvent' = Event("message", id, "rejected")
                ELSE IF Truthy(f.result)
                THEN /\ callers' = Invoke(callers, {id}, "resolved", f.result)
                     /\ currentChannel' = ChannelAfterResolve(id)
                     /\ lastEvent' = Event("message", id, "resolved")
                ELSE /\ UNCHANGED <<callers, currentChannel>>
                     /\ lastEvent' = Event("message", id, "dropped")
             /\ pendingRequests' = MapDelete(pendingRequests, {f.id})
    ELSE Broadcast(f)

\* (mutant) a frame that cannot be decoded fails every command in flight
OnDecodeErrorRejectsAll(f) ==
    /\ timers' = ClearTimeout(timers, {pendingRequests[i].timeout :
                                          i \in DOMAIN pendingRequests})
    /\ callers' = Invoke(callers, DOMAIN pendingRequests, "rejected",
                         "Error parsing message")
    /\ pendingRequests' = MapDelete(pendingRequests, DOMAIN pendingRequests)
    /\ lastEvent' = Event("message", 0, "decode error")
    /\ UNCHANGED currentChannel

\* catch (error) { logger.error(`Error parsing message: ...`) }
OnDecodeError(f) ==
    /\ lastEvent' = Event("message", 0, "decode error")
    /\ UNCHANGED <<pendingRequests, timers, callers, currentChannel>>

\* whether the handler throws before it reaches a branch that touches a request
ThrowsEarly(f) == f.decoded \in {"not JSON", "no message"}

\* the frames the peer can send: about an identifier that was generated, or
\* about none (0)
ArrivingFrames == {f \in Frames : f.id < nextId}

OnMessage(f) ==
    /\ ws.readyState = "OPEN"
    /\ IF ThrowsEarly(f) THEN OnDecodeError(f)
       ELSE IF f.type = "progress_update" THEN OnProgress(f)
       ELSE OnResponse(f)
    /\ UNCHANGED <<connVars, env, analysis, nextId, wire>>

\* ------------------------------------------------------ request timeouts
\* (mutant) the callback forgets the request without telling its caller
RequestTimeoutFireSilent(t) ==
    /\ t \in timers
    /\ t.remaining = 0
    /\ timers' = timers \ {t}
    /\ pendingRequests' = MapDelete(pendingRequests, {t.id})
    /\ lastEvent' = Event("timeout", t.id, "rejected")
    /\ UNCHANGED <<callers, connVars, env, analysis,
                   currentChannel, nextId, wire>>

\* (mutant) the callback waits for another period instead of giving up
RequestTimeoutFireWaitsOn(t) ==
    /\ t \in timers
    /\ t.remaining = 0
    /\ timers' = (timers \ {t}) \cup {[t EXCEPT !.remaining = t.timeoutMs]}
    /\ lastEvent' = Event("timeout", 0, "ignored")
    /\ UNCHANGED <<pendingRequests, callers>>
    /\ UNCHANGED <<connVars, env, analysis, currentChannel, nextId, wire>>

\* the callback of a request's setTimeout (the one armed on sending, or the
\* one armed on progress)
RequestTimeoutFire(t) ==
    /\ t \in timers
    /\ t.remaining = 0
    /\ timers' = timers \ {t}
    /\ IF Has(t.id)
       THEN /\ pendingRequests' = MapDelete(pendingRequests, {t.id})
            /\ callers' = Invoke(callers, {t.id}, "rejected", TimedOutMsg)
            /\ lastEvent' = Event("timeout", t.id, "rejected")
       ELSE /\ UNCHANGED <<pendingRequests, callers>>
            /\ lastEvent' = Event("timeout", 0, "ignored")
    /\ UNCHANGED <<connVars, env, analysis, currentChannel, nextId, wire>>

\* TickMs milliseconds pass; a timer that is due fires before more time passes
Tick ==
    /\ timers # {}
    /\ \A t \in timers : t.remaining >= TickMs
    /\ timers' = {[t EXCEPT !.remaining = @ - TickMs] : t \in timers}
    /\ lastEvent' = Event("tick", 0, "")
    /\ UNCHANGED <<connVars, env, analysis,
                   pendingRequests, currentChannel, nextId,
                   callers, wire>>

\* ------------------------------------------------------------------ Next
Next ==
    \/ Main
    \/ ReconnectTimerFire
    \/ \E a \in 1..MaxSockets : ConnectionTimeoutFire(a)
    \/ OnOpen
    \/ SocketClosing
    \/ OnError
    \/ OnClose
    \/ \E c \in ToolCommands, T \in TimeoutChoices : SendCommand(c, T)
    \/ \E ch \in env.channels : JoinChannel(ch)
    \/ \E f \in ArrivingFrames : OnMessage(f)
    \/ \E t \in timers : RequestTimeoutFire(t)
    \/ Tick

Spec == Init /\ [][Next]_vars

\* ------------------------------------------------------ reconnect backoff
\* the delays are kept in sixteenths of a millisecond, in which
\* reconnectInterval * 1.5^k is an integer for k <= 4
RECURSIVE Pow(_, _)
Pow(b, n) == IF n = 0 THEN 1 ELSE b * Pow(b, n - 1)

\* Math.floor(Math.random() * 5), for Math.random() = r tenths
FloorRandomTimes5(r) == (r * 5) \div 10

\* (mutant) the delay is not capped
BackoffUncapped(reconnectInterval, k) ==
    reconnectInterval * Pow(3, k) * Pow(2, 4 - k)

\* Math.min(30000, reconnectInterval * Math.pow(1.5, k)), in sixteenths of
\* a millisecond
Backoff(reconnectInterval, k) ==
    LET scaled == reconnectInterval * Pow(3, k) * Pow(2, 4 - k)
    IN  IF MaxBackoffMs * 16 < scaled THEN MaxBackoffMs * 16 ELSE scaled

\* a run configured with any of the reconnect intervals
InitBackoff ==
    /\ ws = NullSocket
    /\ nextSock = 1
    /\ connTimers = {}
    /\ reconnectTimers = 0
    /\ env \in [urlOk : {TRUE}, channels : {Channels},
                 reconnectInterval : Intervals]
    /\ pendingRequests = <<>>
    /\ timers = {}
    /\ currentChannel = NoChannel
    /\ nextId = 1
    /\ callers = <<>>
    /\ wire = {}
    /\ lastEvent = Event("init", 0, "")
    /\ analysis = NotCalled

\* the close handler computes the delay of its reconnect timer:
\* const backoff = Math.min(30000, reconnectInterval *
\*                     Math.pow(1.5, Math.floor(Math.random() * 5)))
ScheduleReconnect(r) ==
    /\ lastEvent.op = "init"
    /\ lastEvent' = [op |-> "backoff", id |-> 0, out |-> "scheduled",
                     k |-> FloorRandomTimes5(r),
                     delay16 |-> Backoff(env.reconnectInterval,
                                         FloorRandomTimes5(r))]
    /\ UNCHANGED <<connVars, env, analysis,
                   pendingRequests, timers, currentChannel,
                   nextId, callers, wire>>

NextBackoff == \E r \in RandomTenths : ScheduleReconnect(r)

BackoffSpec == InitBackoff /\ [][NextBackoff]_vars

\* ------------------------------------------------- joins of several channels
\* the names a user that moves between two Figma files asks to join
ChannelNames == Channels \cup {"design-7"}

\* a run in which both names are joined (and the URL is well formed)
InitJoins ==
    /\ ws = NullSocket
    /\ nextSock = 1
    /\ connTimers = {}
    /\ reconnectTimers = 0
    /\ env \in [urlOk : {TRUE}, channels : {ChannelNames},
                 reconnectInterval : {DefaultReconnectIntervalMs}]
    /\ pendingRequests = <<>>
    /\ timers = {}
    /\ currentChannel = NoChannel
    /\ nextId = 1
    /\ callers = <<>>
    /\ wire = {}
    /\ lastEvent = Event("init", 0, "")
    /\ analysis = NotCalled

\* the handlers of such a run, in which join_channel is the only tool called
NextJoins ==
    \/ Main
    \/ ReconnectTimerFire
    \/ \E a \in 1..MaxSockets : ConnectionTimeoutFire(a)
    \/ OnOpen
    \/ SocketClosing
    \/ OnError
    \/ OnClose
    \/ \E ch \in env.channels : JoinChannel(ch)
    \/ \E f \in ArrivingFrames : OnMessage(f)
    \/ \E t \in timers : RequestTimeoutFire(t)
    \/ Tick

JoinSpec == InitJoins /\ [][NextJoins]_vars

\* ------------------------------------------ the analyze_design_system tool
\* documentId: omitted, the empty string, or the identifier of a node
DocumentIds == {"undefined", "''", "1:2"}
\* what a command resolves with: a result without formal styles (no colors,
\* no texts), and one with
AnalysisResults == {"{}", "{colors, texts}"}
\* the messages sendCommandToFigma rejects with
RejectionMessages ==
    {NotConnectedMsg, NoChannelMsg, TimedOutMsg, ClosedMsg, "Node not found"}
\* how the promise of an awaited sendCommandToFigma settles
AwaitedOutcomes ==
    [state : {"resolved"}, value : AnalysisResults]
        \cup [state : {"rejected"}, value : RejectionMessages]

\* the text the catch puts before the message (in ASCII)
AnalysisErrorPrefix == "Error al analizar el sistema de diseno"

\* the tool is called with any arguments; the connection module is as loaded
InitAnalyze ==
    /\ ws = NullSocket
    /\ nextSock = 1
    /\ connTimers = {}
    /\ reconnectTimers = 0
    /\ env \in [urlOk : {TRUE}, channels : {Channels},
                 reconnectInterval : {DefaultReconnectIntervalMs}]
    /\ pendingRequests = <<>>
    /\ timers = {}
    /\ currentChannel = NoChannel
    /\ nextId = 1
    /\ callers = <<>>
    /\ wire = {}
    /\ lastEvent = Event("init", 0, "")
    /\ analysis \in [pc : {"called"}, documentId : DocumentIds,
                      includeComponents : BOOLEAN, inferStyles : BOOLEAN,
                      issued : {<<>>}, outstanding : {<<>>},
                      outcomes : {<<>>}, returned : {<<>>}]

\* documentId ? "get_node_info" : "get_document_info"
DocumentCommand(documentId) ==
    IF Truthy(documentId) THEN "get_node_info" ELSE "get_document_info"

\* await sendCommandToFigma(command): the handler is suspended at pc until
\* the promise settles
Issue(a, command, pc) ==
    [a EXCEPT !.issued = Append(@, command),
              !.outstanding = Append(@, command),
              !.pc = pc]

\* catch (error) { return {content: [{type: "text", text: `Error al
\* analizar el sistema de diseño: ${error.message}`}]} }
ReturnError(a, message) ==
    [a EXCEPT !.pc = "returned",
              !.returned = <<[type |-> "text",
                              text |-> <<AnalysisErrorPrefix, ": ",
                                         message>>]>>]

\* analyzeDesignSystem(...) and the return of the three texts; throws tells
\* whether the analysis of the collected data throws
Analyze(a, throws) ==
    IF throws
    THEN ReturnError(a, "TypeError")
    ELSE [a EXCEPT !.pc = "returned",
                   !.returned = <<[type |-> "text", text |-> <<"initialStatus">>],
                                  [type |-> "text", text |-> <<"summary">>],
                                  [type |-> "text", text |-> <<"designSystem">>]>>]

\* if (includeComponents) { componentsResult = await
\* sendCommandToFigma("get_local_components") }, then the analysis
ComponentsOrAnalyze(a, throws) ==
    IF a.includeComponents
    THEN Issue(a, "get_local_components", "componentsResult")
    ELSE Analyze(a, throws)

\* (mutant) the document and the styles are requested together
AnalyzeDesignSystemCallsTogether ==
    /\ analysis.pc = "called"
    /\ analysis' = Issue(Issue(analysis,
                               DocumentCommand(analysis.documentId),
                               "documentInfo"),
                         "get_styles", "documentInfo")
    /\ UNCHANGED <<connVars, env, pendingRequests, timers, currentChannel,
                   nextId, callers, wire, lastEvent>>

\* the handler is called: it runs up to its first await
AnalyzeDesignSystemCall ==
    /\ analysis.pc = "called"
    /\ analysis' = Issue(analysis, DocumentCommand(analysis.documentId),
                         "documentInfo")
    /\ UNCHANGED <<connVars, env, pendingRequests, timers, currentChannel,
                   nextId, callers, wire, lastEvent>>

\* the promise the handler awaits settles with outcome, and the handler
\* runs on to its next await or to its return
AwaitSettles(outcome, throws) ==
    /\ analysis.pc \in {"documentInfo", "stylesResult", "componentsResult"}
    /\ analysis.outstanding # <<>>
    /\ LET a == [analysis EXCEPT !.outstanding = Tail(@),
                                 !.outcomes = Append(@, outcome)]
       IN  analysis' =
               IF outcome.state = "rejected"
               THEN ReturnError(a, outcome.value)
               ELSE IF a.pc = "documentInfo"
               THEN Issue(a, "get_styles", "stylesResult")
               ELSE IF a.pc = "stylesResult"
               THEN IF a.inferStyles /\ outcome.value = "{}"
                    THEN \* await inferStylesFromDocument(documentInfo)
                         IF throws THEN ReturnError(a, "TypeError")
                         ELSE [a EXCEPT !.pc = "inferredStyles"]
                    ELSE ComponentsOrAnalyze(a, throws)
               ELSE Analyze(a, throws)
    /\ UNCHANGED <<connVars, env, pendingRequests, timers, currentChannel,
                   nextId, callers, wire, lastEvent>>

\* the handler resumes after await inferStylesFromDocument(documentInfo)
InferredStylesResume(throws) ==
    /\ analysis.pc = "inferredStyles"
    /\ analysis' = ComponentsOrAnalyze(analysis, throws)
    /\ UNCHANGED <<connVars, env, pendingRequests, timers, currentChannel,
                   nextId, callers, wire, lastEvent>>

NextAnalyze ==
    \/ AnalyzeDesignSystemCall
    \/ \E outcome \in AwaitedOutcomes, throws \in BOOLEAN :
           AwaitSettles(outcome, throws)
    \/ \E throws \in BOOLEAN : InferredStylesResume(throws)

AnalyzeSpec == InitAnalyze /\ [][NextAnalyze]_vars

\* ======================================================================
\* Properties
\* ======================================================================
Calls(id) == callers[id].resolveCalls + callers[id].rejectCalls
Rejected(msg) == [state |-> "rejected", value |-> msg]

\* C1 -- At-most-one completion: for every identifier sendCommandToFigma
\* registered, resolve and reject are together invoked at most once on the
\* caller's promise; none is invoked while the request is in the pending
\* map, and exactly one has been invoked once it has left the map, whatever
\* responses, duplicates, progress updates, timeouts and closes interleave.
C1_AtMostOneCompletion ==
    \A id \in DOMAIN callers :
        /\ Calls(id) <= 1
        /\ Has(id) <=> Calls(id) = 0
        /\ Calls(id) = 1 <=> callers[id].outcome.state # "pending"

\* C1 witness: one caller was resolved once, the other rejected once by its
\* timeout, and a late terminal frame has just been ignored.
C1_Witness ==
    /\ \E id \in DOMAIN callers :
          callers[id].resolveCalls = 1 /\ callers[id].rejectCalls = 0
    /\ \E id \in DOMAIN callers :
          callers[id].outcome = Rejected(TimedOutMsg) /\ Calls(id) = 1
    /\ lastEvent = Event("message", 0, "broadcast")

\* The module's connection goes away: the socket ws referred to is closed
\* (ws = null) or replaced by a new one.
ConnectionCloses == ws.sock # 0 /\ ws'.sock # ws.sock

\* C2 -- Closure flushes all pending: whenever the connection closes, in
\* any lifecycle state and also when a closing socket is discarded by
\* connectToFigma, every outstanding caller is rejected with the
\* connection-closed error and the pending map is empty right afterwards.
C2_ClosureFlushesAll ==
    [][ConnectionCloses =>
          /\ DOMAIN pendingRequests' = {}
          /\ \A id \in DOMAIN pendingRequests :
                callers'[id].outcome = Rejected(ClosedMsg)]_vars

\* the handler that has just run is ws.on('message')
MessageStep == lastEvent'.op = "message"

\* a terminal response for a registered request is being handled
ResponseFor(f) ==
    /\ MessageStep
    /\ f.id # 0
    /\ Has(f.id)
    /\ OnMessage(f)

\* C3 -- Peer-reported error: a terminal response for a registered request
\* that carries an error description, with or without a result, cancels the
\* timeout, rejects the caller with exactly that description and removes
\* the request.
C3_PeerErrorRejects ==
    [][\A f \in ResponseFrames :
          (ResponseFor(f) /\ Truthy(f.error)) =>
              /\ f.id \notin DOMAIN pendingRequests'
              /\ \A t \in timers' : t.id # f.id
              /\ callers'[f.id].outcome = Rejected(f.error)]_vars

\* C4 -- Empty-result resolution: a terminal response for a registered
\* request with an empty, missing or falsy result and no error resolves the
\* caller with that result and removes the request.
C4_EmptyResultResolves ==
    [][\A f \in ResponseFrames :
          (ResponseFor(f) /\ ~Truthy(f.result) /\ ~Truthy(f.error)) =>
              /\ f.id \notin DOMAIN pendingRequests'
              /\ callers'[f.id].outcome = [state |-> "resolved",
                                           value |-> f.result]]_vars

\* a progress notification for a registered request is being handled
ProgressFor(f) ==
    /\ MessageStep
    /\ lastEvent'.id = f.id
    /\ f.id # 0
    /\ Has(f.id)
    /\ OnMessage(f)

TimersOf(ts, id) == {t \in ts : t.id = id}

\* C5 (as claimed) -- Progress resets the timeout at the same duration: a
\* progress notification for a request sent with timeout T re-arms its
\* timeout to fire exactly T later, for every T.
C5_RearmSameDuration ==
    [][\A f \in ProgressFrames :
          ProgressFor(f) =>
              /\ f.id \in DOMAIN pendingRequests'
              /\ \A t \in TimersOf(timers', f.id) :
                    t.remaining = TimerOf(f.id).timeoutMs]_vars

\* C5 (amended) -- a progress notification for a registered request cancels
\* the armed timeout, so the request does not time out at T, and arms
\* exactly one new timeout that fires InactivityTimeoutMs (60000 ms) later,
\* whatever T the request was sent with.
C5_RearmInactivity ==
    [][\A f \in ProgressFrames :
          ProgressFor(f) =>
              /\ f.id \in DOMAIN pendingRequests'
              /\ Cardinality(TimersOf(timers', f.id)) = 1
              /\ \A t \in TimersOf(timers', f.id) :
                    /\ t.h = pendingRequests'[f.id].timeout
                    /\ t.remaining = InactivityTimeoutMs]_vars

\* C5 witness: progress has just re-armed a request that was sent with the
\* default 30000 ms: its timeout now fires 60000 ms later.
C5_Witness ==
    \E t \in timers :
        /\ Has(t.id)
        /\ pendingRequests[t.id].timeout = t.h
        /\ t.timeoutMs = DefaultTimeoutMs
        /\ t.remaining = InactivityTimeoutMs
        /\ lastEvent = Event("message", t.id, "progress")

\* C6 -- Progress is advisory: handling a progress notification, also one
\* with status 'completed' and progress 100, invokes nothing on any caller
\* and removes no request; a request leaves the pending map only through a
\* terminal response, a timeout firing or the close handler.
C6_ProgressIsAdvisory ==
    [][/\ (MessageStep /\ \E f \in ProgressFrames : OnMessage(f))
            => /\ DOMAIN pendingRequests' = DOMAIN pendingRequests
               /\ callers' = callers
       /\ (DOMAIN pendingRequests \ DOMAIN pendingRequests' # {})
            => \/ \E f \in ResponseFrames : OnMessage(f)
               \/ \E t \in timers : RequestTimeoutFire(t)
               \/ OnClose]_vars

\* C6 witness: a 'completed' / 100 progress notification was just handled
\* for a request that is still registered, its caller still waiting.
C6_Witness ==
    \E id \in DOMAIN pendingRequests :
        /\ lastEvent = Event("message", id, "progress completed")
        /\ callers[id].outcome.state = "pending"
        /\ Calls(id) = 0

\* a tool command is sent while no channel is joined
NoChannelSend(c, T) ==
    /\ lastEvent'.op = "sendCommandToFigma"
    /\ currentChannel = NoChannel
    /\ SendCommand(c, T)

\* C7 (as claimed) -- No-channel gating: a command other than join sent
\* while no channel is joined is rejected with the no-channel error in
\* every connection state.
C7_NoChannelAnyState ==
    [][\A c \in ToolCommands, T \in TimeoutChoices :
          NoChannelSend(c, T) => lastEvent'.out = NoChannelMsg]_vars

\* C7 (amended) -- a command other than join sent while no channel is
\* joined is always rejected and never registered or written: with the
\* no-channel error when the connection is open, and with the not-connected
\* error (the connection is checked first) when it is not.
C7_NoChannelGating ==
    [][\A c \in ToolCommands, T \in TimeoutChoices :
          NoChannelSend(c, T) =>
              /\ lastEvent'.out = IF ws.readyState = "OPEN"
                                  THEN NoChannelMsg ELSE NotConnectedMsg
              /\ UNCHANGED <<pendingRequests, timers, callers, wire,
                             currentChannel>>]_vars

\* C7 witness: on an open connection without a channel a tool command was
\* just rejected with the no-channel error.
C7_Witness ==
    /\ ws.readyState = "OPEN"
    /\ currentChannel = NoChannel
    /\ lastEvent = Event("sendCommandToFigma", 0, NoChannelMsg)

NotConnectedSend(c, T) ==
    /\ lastEvent'.op = "sendCommandToFigma"
    /\ ws.readyState # "OPEN"
    /\ SendCommand(c, T)

\* what every send on a connection that is not open does
RejectsNotConnected ==
    /\ lastEvent'.out = NotConnectedMsg
    /\ UNCHANGED <<pendingRequests, timers, callers, wire>>

\* C9 (as claimed) -- Not-connected send: the call is rejected with the
\* not-connected error, registers nothing, arms no request timeout, writes
\* nothing, and unless an attempt was in progress the transport moves to
\* the connecting state.
C9_NotConnectedSend ==
    [][\A c \in ToolCommands, T \in TimeoutChoices :
          NotConnectedSend(c, T) =>
              /\ RejectsNotConnected
              /\ ws.readyState # "CONNECTING"
                    => ws'.readyState = "CONNECTING"]_vars

\* C9 (amended) -- as claimed, except for the connect attempt: if one is in
\* progress nothing changes; otherwise a new socket is created and is
\* connecting, with its connection timeout armed, provided the WebSocket
\* constructor accepts the address; when the constructor throws, the
\* connection stays null and one retry of connectToFigma is scheduled.
C9_NotConnectedSendAttempt ==
    [][\A c \in ToolCommands, T \in TimeoutChoices :
          NotConnectedSend(c, T) =>
              /\ RejectsNotConnected
              /\ IF ws.readyState = "CONNECTING"
                 THEN UNCHANGED connVars
                 ELSE IF env.urlOk
                 THEN /\ ws'.readyState = "CONNECTING"
                      /\ ws'.sock \notin {0, ws.sock}
                      /\ ws'.sock \in connTimers'
                      /\ reconnectTimers' = reconnectTimers
                 ELSE /\ ws' = NullSocket
                      /\ reconnectTimers' = reconnectTimers + 1]_vars

\* C9 witness: after the first socket closed, and before the reconnect timer
\* fired, a send was rejected as not connected and created the second
\* socket, which is connecting.
C9_Witness ==
    /\ lastEvent = Event("sendCommandToFigma", 0, NotConnectedMsg)
    /\ ws.readyState = "CONNECTING"
    /\ ws.sock > 1
    /\ ws.sock \in connTimers
    /\ reconnectTimers > 0

\* the message handler has just run through its response or broadcast branch
ResponseStep ==
    /\ MessageStep
    /\ lastEvent'.out \in {"resolved", "rejected", "dropped", "broadcast"}

\* C10 -- Out-of-order completion: a terminal response for a pending request
\* completes the request with its identifier and no other: every other
\* caller, pending entry and armed timeout is left as it was, whatever the
\* send order; a response with a result and no error resolves its own caller.
C10_OutOfOrderCompletion ==
    [][ResponseStep =>
          \A f \in ResponseFrames :
            (Has(f.id) /\ OnMessage(f)) =>
              /\ \A a \in DOMAIN callers \ {f.id} :
                    /\ callers'[a] = callers[a]
                    /\ Has(a) => /\ a \in DOMAIN pendingRequests'
                                 /\ pendingRequests'[a] = pendingRequests[a]
                                 /\ TimerOf(a) \in timers'
              /\ (Truthy(f.result) /\ ~Truthy(f.error))
                    => /\ f.id \notin DOMAIN pendingRequests'
                       /\ callers'[f.id].outcome =
                              [state |-> "resolved", value |-> f.result]]_vars

\* C10 witness: B (identifier 2, sent second) was resolved while A
\* (identifier 1, sent first) was outstanding, and A's own response has
\* just resolved A.
C10_Witness ==
    /\ DOMAIN callers = {1, 2}
    /\ callers[2].outcome.state = "resolved"
    /\ callers[1].outcome.state = "resolved"
    /\ lastEvent = Event("message", 1, "resolved")

\* C11 -- Late and duplicate frames are no-ops: a terminal response or a
\* progress notification whose identifier is not in the pending map changes
\* nothing (the pending map, the armed timeouts, the channel, the connection,
\* the callers and the wire stay as they are): the handler touches a request
\* only for a frame whose identifier is pending, and when it touches none it
\* changes nothing; and a terminal response that completes its request
\* removes it, so that the same frame delivered again finds no request and
\* is such a no-op.
C11_LateFramesAreNoOps ==
    [][MessageStep =>
          /\ (lastEvent'.id = 0 /\ lastEvent'.out # "decode error")
                => UNCHANGED <<pendingRequests, timers, currentChannel,
                               connVars, callers, wire, nextId>>
          /\ lastEvent'.id # 0
                => \A f \in ProgressFrames \cup ResponseFrames :
                      OnMessage(f) =>
                          /\ Has(f.id)
                          /\ IsResponseToRequest(f)
                                => f.id \notin DOMAIN pendingRequests']_vars

\* C11 witness: on an open connection a frame was just ignored after a request
\* had been resolved and another had been rejected by its timeout; none is
\* pending any more, so every identifier a frame can carry is a late one.
C11_Witness ==
    /\ ws.readyState = "OPEN"
    /\ lastEvent = Event("message", 0, "progress ignored")
    /\ DOMAIN pendingRequests = {}
    /\ \E id \in DOMAIN callers : callers[id].outcome.state = "resolved"
    /\ \E id \in DOMAIN callers : callers[id].outcome = Rejected(TimedOutMsg)

\* Node's timers: time passes, and a timeout that is due fires.
LiveSpec ==
    /\ Init
    /\ [][Next]_vars
    /\ WF_vars(Tick)
    /\ WF_vars(\E t \in timers : RequestTimeoutFire(t))

\* a progress notification re-arms the timeout of a pending request
ProgressRearms ==
    /\ MessageStep
    /\ lastEvent'.id # 0
    /\ lastEvent'.out \in {"progress", "progress completed", "decode error"}

\* C12 -- No permanent leaks: if timers fire and progress notifications
\* eventually stop arriving for pending requests, every request that is
\* registered is eventually removed from the pending map, whatever the peer
\* sends or fails to send.
C12_NoPermanentLeaks ==
    (<>[][~ProgressRearms]_vars) =>
        \A id \in Ids : (Has(id) ~> ~Has(id))

\* C12 witness: every identifier was registered and none is pending any
\* more: one request was left unanswered until its timeout rejected it, the
\* other was rejected by the close handler.
C12_Witness ==
    /\ DOMAIN callers = Ids
    /\ DOMAIN pendingRequests = {}
    /\ \E id \in Ids : callers[id].outcome = Rejected(TimedOutMsg)
    /\ \E id \in Ids : callers[id].outcome = Rejected(ClosedMsg)

\* the promise joinChannel awaits is settled in this step
JoinSettles(id, state) ==
    /\ callers[id].command = "join"
    /\ callers[id].outcome.state = "pending"
    /\ callers'[id].outcome.state = state

\* joinChannel throws because the connection is not open
JoinThrowsNotConnected ==
    lastEvent' = Event("joinChannel", 0, NotConnectedJoinMsg)

\* C13 (as claimed) -- Join semantics: if the join resolves, the channel
\* becomes the requested name; if it is rejected for any reason (peer error,
\* timeout, connection closed, not connected), the channel is unset after
\* the failure.
C13_JoinFailureUnsets ==
    [][/\ \A id \in DOMAIN callers :
             /\ JoinSettles(id, "resolved")
                   => currentChannel' = callers[id].joinName
             /\ JoinSettles(id, "rejected") => currentChannel' = NoChannel
       /\ JoinThrowsNotConnected => currentChannel' = NoChannel]_vars

\* C13 (amended) -- joinChannel(name) on an open connection sends the join
\* command through sendCommandToFigma (a request is registered and a join
\* envelope for name is written); if it resolves, the channel becomes name;
\* if it is rejected (peer error, timeout, connection closed) the caller gets
\* that error and the channel is left as it was; on a connection that is not
\* open joinChannel throws the not-connected error and changes nothing.
C13_JoinFailureKeeps ==
    [][/\ \A id \in DOMAIN callers :
             /\ JoinSettles(id, "resolved")
                   => currentChannel' = callers[id].joinName
             /\ JoinSettles(id, "rejected")
                   => /\ currentChannel' = currentChannel
                      /\ callers'[id].outcome.value \in
                            {ClosedMsg, TimedOutMsg} \cup
                            {e \in ErrorValues : Truthy(e)}
       /\ \A ch \in env.channels :
             (lastEvent'.op = "joinChannel" /\ JoinChannel(ch)) =>
                 IF ws.readyState = "OPEN"
                 THEN /\ nextId \in DOMAIN pendingRequests'
                      /\ callers'[nextId].command = "join"
                      /\ callers'[nextId].joinName = ch
                      /\ \E e \in wire' \ wire :
                            e.id = nextId /\ e.type = "join" /\ e.channel = ch
                      /\ currentChannel' = currentChannel
                 ELSE /\ JoinThrowsNotConnected
                      /\ UNCHANGED <<connVars, pendingRequests, timers,
                                     currentChannel, callers, wire, nextId>>]_vars

\* C13 witness: a first join resolved and set the channel; a second join was
\* just rejected by its timeout, and the channel is still the first one.
C13_Witness ==
    \E a, b \in DOMAIN callers :
        /\ callers[a].command = "join"
        /\ callers[a].outcome.state = "resolved"
        /\ callers[b].command = "join"
        /\ callers[b].outcome = Rejected(TimedOutMsg)
        /\ lastEvent = Event("timeout", b, "rejected")
        /\ currentChannel = callers[a].joinName

\* the connection is disconnected: there is no socket, or one that has not
\* opened yet
Disconnected(w) == w.readyState \in {"NONE", "CONNECTING"}

\* C14 (as claimed) -- Channel unset while disconnected: in every reachable
\* state in which the connection is disconnected, getCurrentChannel() returns
\* null.
C14_ChannelUnsetWhileDisconnected ==
    Disconnected(ws) => GetCurrentChannel = NoChannel

\* C14 (amended) -- the channel is cleared when a connection opens and not
\* when it closes: a step that closes the connection, and every step taken
\* while it is not open, leaves getCurrentChannel() as it was, except the
\* open event, after which it returns null.
C14_ChannelClearedOnOpen ==
    [][(ws.readyState # "OPEN" \/ ws'.readyState # "OPEN") =>
          GetCurrentChannel' =
              IF ws.readyState # "OPEN" /\ ws'.readyState = "OPEN"
              THEN NoChannel ELSE GetCurrentChannel]_vars

\* C14 witness: the close handler has just run, the connection is
\* disconnected, and the channel joined before is still the current one.
C14_Witness ==
    /\ ws = NullSocket
    /\ lastEvent = Event("close", 0, "")
    /\ GetCurrentChannel \in Channels

\* sendCommandToFigma registered a request and wrote its envelope
SentStep == lastEvent'.out = "sent"

\* C15 -- Envelope tagging: the envelope written for a command other than
\* join has type 'message', the channel that is current (and not null) when
\* it is sent, and message.id and message.params.commandId equal to the
\* envelope id, which is the key the request is registered under; the
\* envelope joinChannel(name) writes has type 'join' and channel name.
C15_EnvelopeTagging ==
    [][SentStep =>
          /\ wire' # wire
          /\ \A e \in wire' \ wire :
                /\ e.id \in DOMAIN pendingRequests' \ DOMAIN pendingRequests
                /\ e.messageId = e.id
                /\ e.commandId = e.id
                /\ e.command = callers'[e.id].command
                /\ IF e.command = "join"
                   THEN /\ e.type = "join"
                        /\ \A ch \in env.channels :
                              JoinChannel(ch) => e.channel = ch
                   ELSE /\ e.type = "message"
                        /\ e.channel = currentChannel
                        /\ e.channel # NoChannel]_vars

\* C15 witness: a join envelope for a channel and a message envelope tagged
\* with that channel are on the wire, the latter just written.
C15_Witness ==
    /\ lastEvent = Event("sendCommandToFigma", 0, "sent")
    /\ \E j, m \in wire :
          /\ j.type = "join" /\ j.channel \in Channels
          /\ m.type = "message" /\ m.channel = j.channel
          /\ m.command \in ToolCommands

C17_NoReplay ==
    [][wire' # wire =>
          /\ SentStep
          /\ ws.readyState = "OPEN"
          /\ ws' = ws
          /\ \E e \in wire' :
                /\ wire' = wire \cup {e}
                /\ e.sock = ws.sock
                /\ e.id \notin {x.id : x \in wire}
                /\ e.id \notin DOMAIN callers]_vars

\* C17 witness: a command written to the first socket was outstanding when
\* that connection closed; the second connection is open and a command was
\* sent on it, and the first command's identifier is not on the second socket.
C17_Witness ==
    /\ ws.readyState = "OPEN"
    /\ ws.sock = 2
    /\ \E e \in wire :
          /\ e.sock = 1
          /\ callers[e.id].outcome = Rejected(ClosedMsg)
          /\ \A x \in wire : x.sock = 2 => x.id # e.id
    /\ \E x \in wire : x.sock = 2

\* C18 -- Timeout rejection: when the timeout of a request fires (no
\* response completed it and no progress replaced the timer within the
\* window) and the request is still registered, it is removed and its caller
\* is rejected with 'Request to Figma timed out', every other request and
\* caller staying as it was; when the request is no longer registered, the
\* callback changes nothing.
C18_TimeoutRejects ==
    [][\A t \in timers :
          (lastEvent'.op = "timeout" /\ RequestTimeoutFire(t)) =>
              IF Has(t.id)
              THEN /\ t.remaining = 0
                   /\ DOMAIN pendingRequests' = DOMAIN pendingRequests \ {t.id}
                   /\ callers'[t.id].outcome = Rejected(TimedOutMsg)
                   /\ callers'[t.id].rejectCalls = 1
                   /\ \A a \in DOMAIN callers \ {t.id} :
                         callers'[a] = callers[a]
                   /\ UNCHANGED <<connVars, currentChannel, wire>>
              ELSE UNCHANGED <<pendingRequests, callers, connVars,
                               currentChannel, wire>>]_vars

\* C18 witness: a tool command got no frame at all on the open connection
\* and its timeout has just rejected it with the timeout error.
C18_Witness ==
    \E id \in DOMAIN callers :
        /\ lastEvent = Event("timeout", id, "rejected")
        /\ callers[id].command \in ToolCommands
        /\ callers[id].outcome = Rejected(TimedOutMsg)
        /\ ~Has(id)
        /\ ws.readyState = "OPEN"

\* C19 -- Decode failures are swallowed: handling a frame that is not JSON
\* or has not a known shape invokes nothing on any caller, adds and removes
\* no pending request, and leaves the channel and the connection as they
\* were; the socket stays open with its handlers, so that later frames are
\* handled as before.
C19_DecodeFailuresSwallowed ==
    [][\A f \in MalformedFrames :
          (MessageStep /\ OnMessage(f)) =>
              /\ callers' = callers
              /\ DOMAIN pendingRequests' = DOMAIN pendingRequests
              /\ currentChannel' = currentChannel
              /\ ws' = ws
              /\ ws'.readyState = "OPEN"
              /\ UNCHANGED <<connVars, wire, nextId>>]_vars

\* C19 witness: a frame that could not be decoded was just dropped while a
\* command is in flight, its caller still waiting.
C19_Witness ==
    /\ lastEvent = Event("message", 0, "decode error")
    /\ ws.readyState = "OPEN"
    /\ \E id \in DOMAIN pendingRequests :
          callers[id].outcome.state = "pending"

\* the handler of command, whose call ended as outcome, returns normally a
\* content list with a text that includes the rejection message
ReturnsErrorText(command, outcome) ==
    LET r == ToolHandler(command, outcome)
    IN  /\ ~r.raised
        /\ \E i \in 1..Len(r.content) :
              /\ r.content[i].type = "text"
              /\ \E k \in 1..Len(r.content[i].text) :
                    r.content[i].text[k] = outcome.value

\* the call that has just run was rejected before anything was registered
\* (not connected, no channel)
RejectedAtOnce ==
    /\ lastEvent.op \in {"sendCommandToFigma", "joinChannel"}
    /\ lastEvent.out # "sent"

\* C20 -- Tool handlers never raise: however a call of sendCommandToFigma or
\* joinChannel is rejected (at once as not connected or without channel, or
\* later by a peer error, a timeout or the closure), the tool handler that
\* awaits it returns normally a content list with a text that includes the
\* rejection message.
C20_ToolHandlersNeverRaise ==
    /\ \A id \in DOMAIN callers :
          callers[id].outcome.state = "rejected"
             => ReturnsErrorText(callers[id].command, callers[id].outcome)
    /\ RejectedAtOnce
          => \A c \in IF lastEvent.op = "joinChannel"
                       THEN {"join"} ELSE ToolCommands :
                ReturnsErrorText(c, Rejected(lastEvent.out))

\* C20 witness: a join was rejected with the peer's error, and the tool
\* command sent after it was rejected at once for want of a channel.
C20_Witness ==
    /\ lastEvent = Event("sendCommandToFigma", 0, NoChannelMsg)
    /\ \E id \in DOMAIN callers :
          /\ callers[id].command = "join"
          /\ callers[id].outcome.state = "rejected"
          /\ Truthy(callers[id].outcome.value)
          /\ callers[id].outcome.value \in ErrorValues

\* the handler of a connection's 'open' event runs
OpenStep == ws.readyState = "CONNECTING" /\ ws'.readyState = "OPEN"

\* C21 -- Channel cleared exactly on open: the current channel goes from
\* set to unset only in the step of an 'open' event; a close, a socket
\* error, a request timeout, a failed or rejected join, a terminal response,
\* a progress update and a frame that cannot be decoded never clear it; and
\* every 'open' event leaves it unset.
C21_ChannelClearedExactlyOnOpen ==
    [][/\ (currentChannel # NoChannel /\ currentChannel' = NoChannel)
              => OpenStep /\ lastEvent'.op = "open"
       /\ OpenStep => currentChannel' = NoChannel]_vars

\* C21 witness: the second connection opened and cleared the channel joined
\* on the first, a join on it succeeded, and the socket error that followed
\* left that channel in place.
C21_Witness ==
    /\ ws = [sock |-> 2, readyState |-> "CLOSING"]
    /\ lastEvent = Event("error", 0, "")
    /\ \A i \in Ids : /\ i \in DOMAIN callers
                      /\ callers[i].command = "join"
                      /\ callers[i].outcome.state = "resolved"
    /\ currentChannel = callers[2].joinName

\* connectToFigma is called: by main, by a reconnect timer, or by a send
\* that found the connection not open
ConnectCall ==
    lastEvent'.op \in {"main", "reconnect"} \/ lastEvent'.out = NotConnectedMsg

\* C22 -- connect is idempotent: a call of connectToFigma while the
\* connection is open or connecting creates no socket, arms no timer and
\* leaves the socket, the pending requests, their timers and the channel as
\* they are; and a socket is only ever created when the module holds none
\* whose handlers are installed and that is open or connecting, so at most
\* one live socket with handlers exists, however reconnect timers and sends
\* interleave.
C22_ConnectIdempotent ==
    [][/\ (ConnectCall /\ ws.readyState \in {"OPEN", "CONNECTING"}) =>
              /\ UNCHANGED <<ws, nextSock, connTimers, pendingRequests,
                             timers, currentChannel, callers, wire>>
              /\ reconnectTimers' <= reconnectTimers
       /\ nextSock' # nextSock =>
              /\ ws.readyState \notin {"OPEN", "CONNECTING"}
              /\ ws' = [sock |-> nextSock, readyState |-> "CONNECTING"]
              /\ nextSock' = nextSock + 1]_vars

\* C22 witness: the reconnect timer armed by the close of the first socket
\* fired while the second socket, created by a send in between, was open
\* with a request in flight: no third socket was created.
C22_Witness ==
    /\ lastEvent = Event("reconnect", 0, "")
    /\ ws = [sock |-> 2, readyState |-> "OPEN"]
    /\ nextSock = 3
    /\ connTimers = {}
    /\ DOMAIN pendingRequests # {}

\* Node runs the callback of a reconnect timer once its delay has passed
ReconnectSpec == Init /\ [][Next]_vars /\ WF_vars(ReconnectTimerFire)

\* connectToFigma was called by a reconnect timer or by a send, or no
\* socket is left within the bound MaxSockets
ConnectAttempted ==
    \/ lastEvent.op = "reconnect"
    \/ lastEvent.out = NotConnectedMsg
    \/ nextSock > MaxSockets

\* C23 -- Single reconnect trigger: the handler of a socket 'error' event
\* arms no reconnect timer and leaves the pending requests, their timers and
\* their callers as they are; the handler of a 'close' event nulls the
\* connection and arms exactly one reconnect timer, so an error followed by
\* its close arms one timer, not two; and after every close connectToFigma
\* is eventually called.
C23_SingleReconnectTrigger ==
    /\ [][/\ lastEvent'.op = "error" =>
                 UNCHANGED <<reconnectTimers, connTimers, nextSock,
                             pendingRequests, timers, callers>>
          /\ lastEvent'.op = "close" =>
                 /\ ws' = NullSocket
                 /\ reconnectTimers' = reconnectTimers + 1]_vars
    /\ (lastEvent.op = "close") ~> ConnectAttempted

\* C23 witness: the error handler ran on a connection with a request in
\* flight: the socket is closing, the request is still pending, and no
\* reconnect timer is armed before the close event.
C23_Witness ==
    /\ lastEvent = Event("error", 0, "")
    /\ ws.readyState = "CLOSING"
    /\ reconnectTimers = 0
    /\ DOMAIN pendingRequests # {}

\* C24 -- No-channel rejection is side-effect free: a call of
\* sendCommandToFigma that ends with the no-channel error is made on an open
\* connection without a channel, and it registers no pending request, arms
\* no timeout, writes nothing to the socket, generates no identifier,
\* starts no connect attempt and leaves the connection and the channel as
\* they are.
C24_NoChannelRejectionIsPure ==
    [][lastEvent'.out = NoChannelMsg =>
          /\ ws.readyState = "OPEN"
          /\ currentChannel = NoChannel
          /\ UNCHANGED <<ws, nextSock, connTimers, reconnectTimers,
                         pendingRequests, timers, callers, wire, nextId,
                         currentChannel>>]_vars

\* C24 witness: a tool command was rejected with the no-channel error while
\* a join was in flight on the open connection: the join is still the only
\* request that is pending, armed and written.
C24_Witness ==
    /\ lastEvent = Event("sendCommandToFigma", 0, NoChannelMsg)
    /\ ws.readyState = "OPEN"
    /\ currentChannel = NoChannel
    /\ DOMAIN pendingRequests = {1}
    /\ callers[1].command = "join"
    /\ Cardinality(timers) = 1
    /\ Cardinality(wire) = 1
    /\ nextId = 2

\* C25 (as claimed) -- Not-connected join triggers reconnect: a join
\* attempted through joinChannel while the connection is not open is
\* rejected at once with a not-connected error, and, like a command sent
\* while not connected, it calls connectToFigma: when there is no socket, or
\* only one that is closing, a new socket is connecting afterwards (given a
\* well-formed URL, and a socket left within the bound MaxSockets).
C25_NotConnectedJoinReconnects ==
    [][(lastEvent'.op = "joinChannel" /\ ws.readyState # "OPEN") =>
          /\ lastEvent'.out \in {NotConnectedJoinMsg, NotConnectedMsg}
          /\ UNCHANGED <<pendingRequests, timers, callers, wire>>
          /\ (ws.readyState # "CONNECTING" /\ env.urlOk
                 /\ nextSock <= MaxSockets)
                => ws' = [sock |-> nextSock, readyState |-> "CONNECTING"]]_vars

\* C26 -- Connection timeout is per attempt: while the connection timeout of
\* an attempt is armed, the module's socket is the one that attempt created
\* and it is still connecting (the timeout is cancelled when that socket
\* opens or closes); and when the timeout fires it terminates that socket
\* only, and only if it is still connecting, never a socket created by a
\* later attempt.
C26_ConnectionTimeoutPerAttempt ==
    /\ [](\A a \in connTimers :
             ws = [sock |-> a, readyState |-> "CONNECTING"])
    /\ [][lastEvent'.op = "connectionTimeout" =>
             \A a \in connTimers \ connTimers' :
                 ws' # ws => /\ ws = [sock |-> a, readyState |-> "CONNECTING"]
                             /\ ws' = [sock |-> a, readyState |-> "CLOSING"]]_vars

\* C26 witness: the timeout of the second attempt fired while its socket was
\* still connecting and terminated it; no connection timeout is left armed.
C26_Witness ==
    /\ lastEvent = Event("connectionTimeout", 0, "CONNECTING")
    /\ ws = [sock |-> 2, readyState |-> "CLOSING"]
    /\ nextSock = 3
    /\ connTimers = {}

\* the smaller of two numbers
Min(a, b) == IF a < b THEN a ELSE b

\* the delay is min(30000, interval * 1.5^k) for some k in 0..4
DelayIsCappedPower(interval, delay16) ==
    \E k \in 0..4 :
        delay16 = Min(MaxBackoffMs * 16,
                      interval * Pow(3, k) * Pow(2, 4 - k))

\* C27 (as claimed) -- Backoff bound: the reconnect delay the close handler
\* schedules is min(30000, reconnectInterval * 1.5^k) ms for some integer k
\* in 0..4, and for any configured base interval it is at most 30000 ms and
\* at least min(reconnectInterval, 30000) ms.
C27_BackoffBound ==
    lastEvent.op = "backoff" =>
        /\ DelayIsCappedPower(env.reconnectInterval, lastEvent.delay16)
        /\ lastEvent.delay16 <= MaxBackoffMs * 16
        /\ lastEvent.delay16 >= Min(env.reconnectInterval, MaxBackoffMs) * 16

\* C27 (amended) -- the delay is min(30000, reconnectInterval * 1.5^k) ms
\* for some integer k in 0..4 and at most 30000 ms for any configured base
\* interval, and at least min(reconnectInterval, 30000) ms when the base
\* interval is not negative.
C27_BackoffBoundNonNegative ==
    lastEvent.op = "backoff" =>
        /\ DelayIsCappedPower(env.reconnectInterval, lastEvent.delay16)
        /\ lastEvent.delay16 <= MaxBackoffMs * 16
        /\ env.reconnectInterval >= 0 =>
               lastEvent.delay16 >=
                   Min(env.reconnectInterval, MaxBackoffMs) * 16

\* C27 witness: with a base interval of 8000 ms the exponent 4 gives
\* 40500 ms, and the delay scheduled is the cap.
C27_Witness ==
    /\ lastEvent.op = "backoff"
    /\ env.reconnectInterval = 8 * IntervalStepMs
    /\ lastEvent.k = 4
    /\ lastEvent.delay16 = MaxBackoffMs * 16

\* C28 -- Timer/pending correspondence: in every reachable state each
\* request in the pending map has exactly one armed timeout, the one its
\* timeout field refers to, and every armed request timeout is the one of a
\* request that is in the map: resolving, rejecting, flushing on close and
\* re-arming on progress leave no orphan timer and no request without one.
C28_TimerPendingCorrespondence ==
    /\ \A id \in DOMAIN pendingRequests :
          /\ Cardinality({t \in timers : t.id = id}) = 1
          /\ \E t \in timers : t.id = id /\ t.h = pendingRequests[id].timeout
    /\ \A t \in timers :
          /\ Has(t.id)
          /\ pendingRequests[t.id].timeout = t.h
    /\ Cardinality(timers) = Cardinality(DOMAIN pendingRequests)

\* C28 witness: with two requests in flight a progress update re-armed one
\* of them: its old timer is gone, the new one, armed for the inactivity
\* period, is the one its entry refers to, and the other request keeps its own.
C28_Witness ==
    /\ lastEvent.op = "message"
    /\ lastEvent.out = "progress"
    /\ DOMAIN pendingRequests = {1, 2}
    /\ Cardinality(timers) = 2
    /\ \E t \in timers : /\ t.id = lastEvent.id
                         /\ t.remaining = InactivityTimeoutMs
                         /\ t.h = pendingRequests[t.id].timeout

\* the joins whose promise this step fulfils
JoinsResolved ==
    {id \in DOMAIN pendingRequests :
        /\ callers[id].command = "join"
        /\ callers'[id].outcome.state = "resolved"}

\* C29 -- Concurrent joins: with several joinChannel calls outstanding on
\* one connection, each step sets the channel to the name of the join whose
\* successful response it handles, whatever the order of the calls, so the
\* channel after all of them is the name of the join resolved last; a step
\* in which a join fails (error response, timeout, close) or anything else
\* happens leaves the channel as it was, except an open event, which clears
\* it; hence the channel is always unset or the name of a resolved join.
C29_ConcurrentJoins ==
    /\ [][/\ Cardinality(JoinsResolved) <= 1
          /\ currentChannel' =
                 IF OpenStep THEN NoChannel
                 ELSE IF JoinsResolved # {}
                 THEN callers[CHOOSE id \in JoinsResolved : TRUE].joinName
                 ELSE currentChannel]_vars
    /\ [](currentChannel # NoChannel =>
             \E id \in DOMAIN callers :
                 /\ callers[id].command = "join"
                 /\ callers[id].outcome.state = "resolved"
                 /\ callers[id].joinName = currentChannel)

\* C29 witness: two joins of different names were outstanding together; the
\* second call was answered first and the first call last, and the channel
\* is the name of the first call.
C29_Witness ==
    /\ DOMAIN callers = {1, 2}
    /\ \A i \in {1, 2} : /\ callers[i].command = "join"
                         /\ callers[i].outcome.state = "resolved"
                         /\ \E e \in wire : e.id = i /\ e.sock = ws.sock
    /\ callers[1].joinName # callers[2].joinName
    /\ lastEvent = Event("message", 1, "resolved")
    /\ currentChannel = callers[1].joinName

\* the commands the handler is to issue, in order
ExpectedCommands(a) ==
    <<IF a.documentId \in {"undefined", "''"} THEN "get_document_info"
      ELSE "get_node_info",
      "get_styles">>
        \o (IF a.includeComponents THEN <<"get_local_components">> ELSE <<>>)

====
